---------------------------- MODULE Spec2Model ----------------------------
(***************************************************************************)
(* Model of the two faster-whisper entry points of the repository:         *)
(*   scripts/whisper_server.py  - the resident HTTP transcription server   *)
(*   scripts/transcribe.py      - the one-shot stdin/stdout CLI            *)
(*                                                                         *)
(* Text is a sequence of one-character strings.  The module is kept ASCII, *)
(* so a Japanese character is written as one element named after its      *)
(* script and reading ("kanji_kou" is the single character U+9AD8).        *)
(* A payload is its byte length together with whether the bytes form a     *)
(* RIFF/WAVE container that wave.open accepts.                             *)
(***************************************************************************)
EXTENDS Integers, Sequences, FiniteSets, TLC

VARIABLES
    DEVICE,               \* whisper_server.py:25  os.environ WHISPER_DEVICE
    COMPUTE_TYPE,         \* whisper_server.py:26  os.environ WHISPER_COMPUTE_TYPE
    torch,                \* the host: is torch importable, is CUDA available
    srv,                  \* position of the server process
    exit_status,          \* exit status of the server process once it has exited
    actual_device,        \* whisper_server.py:52
    actual_compute_type,  \* whisper_server.py:53
    model,                \* whisper_server.py:58  the process-wide model handle
    loads,                \* number of WhisperModel constructions in the server process
    st,                   \* per call: unsent / queued / handling / answered
    frame,                \* per call: do_POST's locals while model.transcribe runs
    tmpfiles,             \* the temporary files that exist on disk
    last                  \* the most recent completed exchange (call and answer)

vars == <<DEVICE, COMPUTE_TYPE, torch, srv, exit_status, actual_device,
          actual_compute_type, model, loads, st, frame, tmpfiles, last>>

---------------------------------------------------------------------------
(* Bound of the model: the number of calls made in a run.  A call is either
   one HTTP request to the server or one run of the CLI process. *)

MaxCalls == 2

(* Program constants *)

MinWavSize == 44

HTTP_OK == 200

HTTP_NOT_FOUND == 404

HTTP_NOT_IMPLEMENTED == 501

---------------------------------------------------------------------------
(* Values *)

None == "None"

Calls == 1..MaxCalls

Whitespace == {" ", "\n"}

hallucinations ==
    << <<"hira_go", "kanji_shi", "kanji_chou", "hira_a", "hira_ri", "hira_ga",
         "hira_to", "hira_u", "hira_go", "hira_za", "hira_i", "hira_ma",
         "hira_shi", "hira_ta">>,
       <<"kata_chi", "kata_small_ya", "kata_n", "kata_ne", "kata_ru",
         "kanji_tou", "kanji_roku">>,
       <<"kanji_kou", "kanji_hyou", "kanji_ka">>,
       <<"S", "u", "b", "t", "i", "t", "l", "e", "s", " ", "b", "y">>,
       <<"A", "m", "a", "r", "a", ".", "o", "r", "g">> >>

(* Segment texts and the segment lists model.transcribe yields in the model:
   no segment, plain text with leading, inner and trailing whitespace, a
   blocked phrase split over two segments, a blocked phrase inside a longer
   transcript, and near misses. *)
SegA == <<" ", "a">>

SegB == <<"kanji_kou", "kanji_hyou">>

SegC == <<"kanji_ka", " ">>

SegD == <<"\n", "b", " ", "b", "y">>

SegS == <<"S", "u", "b", "t", "i", "t", "l", "e", "s">>

SegmentLists ==
    { <<>>,
      <<SegA>>,
      <<SegA, SegD>>,
      <<SegC, SegA>>,
      <<SegB, SegC>>,
      <<SegC, SegB>>,
      <<SegA, SegB, SegC>>,
      <<SegS, SegD>>,
      <<SegS, SegC, SegD>> }

(* Payloads: byte length and well-formedness; a WAV container has at least
   the 44 header bytes. *)
PayloadLens == {0, 43, 44}

Payloads ==
    { p \in [len : PayloadLens, wav : BOOLEAN] : p.wav => p.len >= MinWavSize }

(* The Content-Length header a client may send with a body. *)
ContentLengths == {"missing", "abc", "-1", "0", "43", "44"}

Methods == {"GET", "POST", "PUT", "DELETE", "HEAD"}

Paths == {"/", "/health", "/health/"}

---------------------------------------------------------------------------
(* Text operations *)

RECURSIVE Join_WithSpace(_)
\* mutant of Join: " ".join(parts)
Join_WithSpace(parts) ==
    IF parts = <<>> THEN <<>>
    ELSE IF Tail(parts) = <<>> THEN Head(parts)
    ELSE Head(parts) \o <<" ">> \o Join_WithSpace(Tail(parts))

RECURSIVE Join(_)
\* "".join(parts)
Join(parts) ==
    IF parts = <<>> THEN <<>> ELSE Head(parts) \o Join(Tail(parts))

RECURSIVE LStrip(_)
LStrip(s) ==
    IF s # <<>> /\ Head(s) \in Whitespace THEN LStrip(Tail(s)) ELSE s

RECURSIVE RStrip(_)
RStrip(s) ==
    IF s # <<>> /\ s[Len(s)] \in Whitespace
    THEN RStrip(SubSeq(s, 1, Len(s) - 1))
    ELSE s

\* str.strip()
Strip(s) == RStrip(LStrip(s))

\* h in text
Contains(h, text) ==
    \E i \in 1..(Len(text) - Len(h) + 1) : SubSeq(text, i, i + Len(h) - 1) = h


---------------------------------------------------------------------------
(* Environment, exchange log and response bodies *)

MODEL_SIZE == "small"

Devices == {"cuda", "cpu", "auto"}

ComputeTypes == {"float16", "int8_float16"}

TorchStates == {"not_installed", "no_cuda", "cuda_available"}

NoModel == [kind |-> "None"]

\* WhisperModel(MODEL_SIZE, device=..., compute_type=...)
WhisperModel(size, device, compute_type) ==
    [kind |-> "WhisperModel", model_size |-> size, device |-> device,
     compute_type |-> compute_type]

NoFrame == [live |-> FALSE]

NoBody == [empty |-> TRUE]

NoPayload == [len |-> 0, wav |-> FALSE]

\* what send_error writes: an HTML error page, not JSON
ErrorPage(code) == [html_error |-> code]

\* {"success": False, "error": error_message}
ErrorBody(error_message) == [success |-> FALSE, error |-> error_message]

\* The exchange log: what was asked and what was answered.
\*   prog     "server" or "cli"
\*   path     the request path, where the handler reads it (do_POST does not)
\*   hdr      the Content-Length header of a POST answered before inference
\*   fault    the failure the environment injected: "none", "load", "write"
\*            or "transcribe"
\*   invoked  whether model.transcribe was called for this payload
\*   created  whether a temporary file was created for this call
\*   loads    WhisperModel constructions made by the process up to the answer
\*   status   the HTTP status of the answer (0 for the CLI, which has none)
Exchange(prog, method, path, hdr, payload, fault, invoked, created, segs, nloads, status, body) ==
    [prog |-> prog, method |-> method, path |-> path, hdr |-> hdr,
     payload |-> payload, fault |-> fault, invoked |-> invoked,
     created |-> created, segs |-> segs, loads |-> nloads, status |-> status,
     body |-> body]

NoExchange ==
    Exchange(None, None, None, None, NoPayload, "none", FALSE, FALSE, <<>>,
             0, 0, NoBody)

\* tempfile.NamedTemporaryFile(suffix='.wav', delete=False) creates a file
\* under a name no other file has; the model names it after the call it is
\* created for.
NamedTemporaryFile(c) == c

---------------------------------------------------------------------------
(* whisper_server.py: module-level start-up *)

get_device ==
    IF DEVICE = "cuda"
    THEN IF torch = "cuda_available" THEN "cuda" ELSE "cpu"
    ELSE DEVICE

\* mutant of get_compute_type: no CPU fallback of the precision
get_compute_type_Requested(device) == COMPUTE_TYPE

get_compute_type(device) ==
    IF device = "cpu" THEN "int8" ELSE COMPUTE_TYPE

\* mutant of OnLoadFailure: the failure is logged and the process goes on
OnLoadFailure_Continue == [srv |-> "loaded", exit_status |-> <<>>]

\* except Exception: print(...); sys.exit(1)
OnLoadFailure == [srv |-> "exited", exit_status |-> <<1>>]

\* Lines 51-66: resolve device and precision, construct the model once.
LoadModule ==
    /\ srv = "init"
    /\ \E loadOk \in BOOLEAN :
         LET dev == get_device
             ct  == get_compute_type(dev)
         IN  /\ actual_device' = dev
             /\ actual_compute_type' = ct
             /\ IF loadOk
                THEN /\ model' = WhisperModel(MODEL_SIZE, dev, ct)
                     /\ loads' = loads + 1
                     /\ srv' = "loaded"
                     /\ exit_status' = exit_status
                ELSE /\ model' = model
                     /\ loads' = loads
                     /\ srv' = OnLoadFailure.srv
                     /\ exit_status' = OnLoadFailure.exit_status
    /\ UNCHANGED <<DEVICE, COMPUTE_TYPE, torch, st, frame, tmpfiles, last>>

\* main(): HTTPServer(server_address, TranscribeHandler) binds and listens,
\* serve_forever() accepts.
ServerMain ==
    /\ srv = "loaded"
    /\ srv' = "listening"
    /\ UNCHANGED <<DEVICE, COMPUTE_TYPE, torch, exit_status, actual_device,
                   actual_compute_type, model, loads, st, frame, tmpfiles,
                   last>>

ServerUnchanged ==
    UNCHANGED <<DEVICE, COMPUTE_TYPE, torch, srv, exit_status, actual_device,
                actual_compute_type, model, loads>>

\* A client connects and sends the request of call c; the connection waits
\* in the listen backlog until the serving loop accepts it.
Arrive(c) ==
    /\ srv = "listening"
    /\ st[c] = "unsent"
    /\ st' = [st EXCEPT ![c] = "queued"]
    /\ UNCHANGED <<frame, tmpfiles, last>>
    /\ ServerUnchanged

\* mutant of CanAccept: a thread per request (ThreadingHTTPServer)
CanAccept_Threaded == TRUE

\* HTTPServer is socketserver.TCPServer without a threading or forking
\* mix-in: serve_forever handles a request to completion before it accepts
\* the next one.
CanAccept == \A q \in Calls : st[q] # "handling"

Accepts(c) ==
    /\ srv = "listening"
    /\ st[c] = "queued"
    /\ CanAccept

---------------------------------------------------------------------------
(* whisper_server.py: TranscribeHandler *)

\* int(self.headers.get('Content-Length', 0)): the integer, or ValueError
int(hdr) ==
    CASE hdr = "missing" -> [ok |-> TRUE, value |-> 0]
      [] hdr = "-1" -> [ok |-> TRUE, value |-> -1]
      [] hdr = "0"  -> [ok |-> TRUE, value |-> 0]
      [] hdr = "43" -> [ok |-> TRUE, value |-> 43]
      [] hdr = "44" -> [ok |-> TRUE, value |-> 44]
      [] OTHER      -> [ok |-> FALSE, value |-> 0]

\* len(self.rfile.read(content_length)): a negative size reads to the end of
\* the stream, a size beyond the body ends at the end of the stream.
rfile_read(content_length, payload) ==
    IF content_length < 0 \/ content_length > payload.len
    THEN payload.len
    ELSE content_length

\* mutant of TooShort: the floor one byte lower
TooShort_OffByOne(n) == n < MinWavSize - 1

\* len(wav_data) < 44
TooShort(n) == n < MinWavSize

\* send_json_response(data)
send_json_response(data) == [status |-> HTTP_OK, body |-> data]

\* mutant of send_error_response: the failure reported as an HTTP error status
send_error_response_500(error_message) ==
    [status |-> HTTP_NOT_IMPLEMENTED - 1, body |-> ErrorBody(error_message)]

\* send_error_response(error_message)
send_error_response(error_message) ==
    [status |-> HTTP_OK, body |-> ErrorBody(error_message)]

\* text = "".join(text_parts).strip()
Aggregate(segs) == Strip(Join(segs))

\* mutant of FilterHallucinations: h == text in place of h in text
FilterHallucinations_ExactMatch(text) ==
    IF \E i \in DOMAIN hallucinations : hallucinations[i] = text
    THEN <<>>
    ELSE text

\* for h in hallucinations: if h in text: text = ""; break
FilterHallucinations(text) ==
    IF \E i \in DOMAIN hallucinations : Contains(hallucinations[i], text)
    THEN <<>>
    ELSE text

\* the result dict of a successful server transcription
ServerResult(text) ==
    [success |-> TRUE, text |-> text, language |-> "ja",
     language_probability |-> "info.language_probability",
     duration |-> "info.duration"]

\* The request is answered in the step it was accepted in.
Answer(c, method, path, hdr, payload, fault, created, resp) ==
    /\ st' = [st EXCEPT ![c] = "answered"]
    /\ last' = Exchange("server", method, path, hdr, payload, fault, FALSE,
                        created, <<>>, loads, resp.status, resp.body)
    /\ frame' = frame

\* BaseHTTPRequestHandler dispatches on 'do_' + command; the class defines
\* do_POST and do_GET only, and the base class answers any other command
\* with 501.
Unsupported(c) ==
    /\ Accepts(c)
    /\ \E method \in Methods \ {"GET", "POST"}, path \in Paths :
         Answer(c, method, path, None, NoPayload, "none", FALSE,
                [status |-> HTTP_NOT_IMPLEMENTED,
                 body |-> ErrorPage(HTTP_NOT_IMPLEMENTED)])
    /\ tmpfiles' = tmpfiles
    /\ ServerUnchanged

\* mutant of do_GET: the health answer on every path
do_GET_AnyPath(path) ==
    send_json_response([status |-> "ok", model |-> MODEL_SIZE,
                        device |-> actual_device,
                        compute_type |-> actual_compute_type])

do_GET(path) ==
    IF path = "/health"
    THEN send_json_response([status |-> "ok", model |-> MODEL_SIZE,
                             device |-> actual_device,
                             compute_type |-> actual_compute_type])
    ELSE [status |-> HTTP_NOT_FOUND, body |-> ErrorPage(HTTP_NOT_FOUND)]

DoGet(c) ==
    /\ Accepts(c)
    /\ \E path \in Paths :
         Answer(c, "GET", path, None, NoPayload, "none", FALSE, do_GET(path))
    /\ tmpfiles' = tmpfiles
    /\ ServerUnchanged

\* do_POST up to the call of model.transcribe (lines 71-90): either the
\* request is answered, or the handler blocks in the inference call.
\* self.path is not read: the step is the same for a POST to any path.
DoPostBegin(c) ==
    /\ Accepts(c)
    /\ \E hdr \in ContentLengths, payload \in Payloads :
         LET cl == int(hdr)
             n  == rfile_read(cl.value, payload)
             tmp_path == NamedTemporaryFile(c)
         IN  IF ~cl.ok
             THEN /\ Answer(c, "POST", None, hdr, payload, "none", FALSE,
                      send_error_response("invalid literal for int() with base 10"))
                  /\ tmpfiles' = tmpfiles
             ELSE IF cl.value = 0
             THEN /\ Answer(c, "POST", None, hdr, payload, "none", FALSE,
                      send_error_response("No audio data received"))
                  /\ tmpfiles' = tmpfiles
             ELSE IF TooShort(n)
             THEN /\ Answer(c, "POST", None, hdr, payload, "none", FALSE,
                      send_error_response("Invalid WAV data (too short)"))
                  /\ tmpfiles' = tmpfiles
             ELSE \E writeOk \in BOOLEAN :
                  IF ~writeOk
                  THEN \* tmp.write raises inside the with block: the file
                       \* was created with delete=False, and the try/finally
                       \* that unlinks it has not been entered
                       /\ Answer(c, "POST", None, hdr, payload, "write", TRUE,
                           send_error_response("[Errno 28] No space left on device"))
                       /\ tmpfiles' = tmpfiles \cup {tmp_path}
                  ELSE /\ tmpfiles' = tmpfiles \cup {tmp_path}
                       /\ st' = [st EXCEPT ![c] = "handling"]
                       /\ frame' = [frame EXCEPT ![c] =
                                      [live |-> TRUE, tmp_path |-> tmp_path,
                                       payload |-> payload]]
                       /\ last' = last
    /\ ServerUnchanged

\* do_POST from model.transcribe on (lines 90-145) when the library raises,
\* in the call or while the segment generator is consumed.
DoPostRaise(c) ==
    /\ srv = "listening"
    /\ st[c] = "handling"
    /\ LET f == frame[c]
           resp == send_error_response("library error")
       IN  /\ tmpfiles' = tmpfiles \ {f.tmp_path}
           /\ last' = Exchange("server", "POST", None, None, f.payload,
                               "transcribe", TRUE, TRUE, <<>>, loads,
                               resp.status, resp.body)
    /\ st' = [st EXCEPT ![c] = "answered"]
    /\ frame' = [frame EXCEPT ![c] = NoFrame]
    /\ ServerUnchanged

\* do_POST from model.transcribe on (lines 90-140) when it returns: the
\* segments are joined, stripped and filtered, the file is unlinked, the
\* result sent.
DoPostReturn(c) ==
    /\ srv = "listening"
    /\ st[c] = "handling"
    /\ \E segs \in SegmentLists :
         LET f == frame[c]
             text == FilterHallucinations(Aggregate(segs))
             resp == send_json_response(ServerResult(text))
         IN  /\ tmpfiles' = tmpfiles \ {f.tmp_path}
             /\ last' = Exchange("server", "POST", None, None, f.payload,
                                 "none", TRUE, TRUE, segs, loads,
                                 resp.status, resp.body)
    /\ st' = [st EXCEPT ![c] = "answered"]
    /\ frame' = [frame EXCEPT ![c] = NoFrame]
    /\ ServerUnchanged

---------------------------------------------------------------------------
(* transcribe.py *)

CLI_DEVICE == "cuda"

CLI_COMPUTE_TYPE == "float16"

\* load_model(): construct the model if the process-global handle is None.
\* Gives the handle and the number of constructions made.
load_model(handle) ==
    IF handle = NoModel
    THEN [model |-> WhisperModel(MODEL_SIZE, CLI_DEVICE, CLI_COMPUTE_TYPE),
          loads |-> 1]
    ELSE [model |-> handle, loads |-> 0]

\* text = "".join([seg.text for seg in segments]); "text": text.strip()
CliResult(segs) ==
    [success |-> TRUE, text |-> Strip(Join(segs)), language |-> "ja",
     duration |-> "info.duration"]

\* What the environment does to one CLI run: the model fails to load, the
\* write to the temporary file fails, the library raises, or it yields segs.
CliEnvs ==
    { [fault |-> f, segs |-> <<>>] : f \in {"load", "write", "transcribe"} }
        \cup { [fault |-> "none", segs |-> segs] : segs \in SegmentLists }

\* transcribe_wav(wav_bytes) in a fresh process (model is None): what it
\* returns or raises (str(e) as main reports it), what it leaves on disk,
\* and what it did.
transcribe_wav(c, payload, env) ==
    LET loaded == load_model(NoModel)
        tmp_path == NamedTemporaryFile(c)
        outcome(result, fault, leaked, created, invoked, nloads, out) ==
            [result |-> result, fault |-> fault, leaked |-> leaked,
             created |-> created, invoked |-> invoked, loads |-> nloads,
             segs |-> out]
    IN  IF env.fault = "load"
        THEN outcome(ErrorBody("load error"), "load", {}, FALSE, FALSE, 0, <<>>)
        ELSE IF ~payload.wav
        THEN \* wave.open raises wave.Error
             outcome(ErrorBody("file does not start with RIFF id"), "none", {},
                     FALSE, FALSE, loaded.loads, <<>>)
        ELSE IF env.fault = "write"
        THEN \* tmp.write raises before the try/finally is entered
             outcome(ErrorBody("[Errno 28] No space left on device"), "write",
                     {tmp_path}, TRUE, FALSE, loaded.loads, <<>>)
        ELSE IF env.fault = "transcribe"
        THEN outcome(ErrorBody("library error"), "transcribe", {}, TRUE, TRUE,
                     loaded.loads, <<>>)
        ELSE outcome(CliResult(env.segs), "none", {}, TRUE, TRUE,
                     loaded.loads, env.segs)

\* main(): one CLI process, from reading stdin to printing the JSON line.
CliMain(c) ==
    /\ st[c] = "unsent"
    /\ \E payload \in Payloads :
         IF TooShort(payload.len)
         THEN /\ last' = Exchange("cli", None, None, None, payload, "none",
                                  FALSE, FALSE, <<>>, 0, 0,
                                  ErrorBody("Invalid WAV data"))
              /\ tmpfiles' = tmpfiles
         ELSE \E env \in CliEnvs :
              LET t == transcribe_wav(c, payload, env)
              IN  /\ last' = Exchange("cli", None, None, None, payload,
                                      t.fault, t.invoked, t.created, t.segs,
                                      t.loads, 0, t.result)
                  /\ tmpfiles' = tmpfiles \cup t.leaked
    /\ st' = [st EXCEPT ![c] = "answered"]
    /\ frame' = frame
    /\ ServerUnchanged

---------------------------------------------------------------------------
(* Specification *)

Init ==
    /\ DEVICE \in Devices
    /\ COMPUTE_TYPE \in ComputeTypes
    /\ torch \in TorchStates
    /\ srv = "init"
    /\ exit_status = <<>>
    /\ actual_device = "unset"
    /\ actual_compute_type = "unset"
    /\ model = NoModel
    /\ loads = 0
    /\ st = [c \in Calls |-> "unsent"]
    /\ frame = [c \in Calls |-> NoFrame]
    /\ tmpfiles = {}
    /\ last = NoExchange

Next ==
    \/ LoadModule
    \/ ServerMain
    \/ \E c \in Calls : CliMain(c)
    \/ \E c \in Calls : Arrive(c)
    \/ \E c \in Calls : Unsupported(c)
    \/ \E c \in Calls : DoGet(c)
    \/ \E c \in Calls : DoPostBegin(c)
    \/ \E c \in Calls : DoPostRaise(c)
    \/ \E c \in Calls : DoPostReturn(c)

Spec == Init /\ [][Next]_vars

---------------------------------------------------------------------------
(* Properties *)

\* The exchange is a transcription call: a CLI run or a POST to the server.
IsTranscription(e) ==
    \/ e.prog = "cli"
    \/ e.prog = "server" /\ e.method = "POST"

\* The exchange ran the inference to its end and returned a transcript.
Transcribed(e) ==
    IsTranscription(e) /\ e.invoked /\ e.fault = "none"

\* The messages of the two programs that start with "Invalid WAV data".
InvalidWavMessages == {"Invalid WAV data", "Invalid WAV data (too short)"}

\* The client declared the length of its body correctly.
HonestContentLength(e) ==
    int(e.hdr).ok /\ int(e.hdr).value = e.payload.len

\* C1 as stated: every payload of 0..43 bytes, on stdin or as a POST body
\* whose length the client declares, gets success=false with an error that
\* starts with "Invalid WAV data", and model.transcribe is not invoked.
C1_ShortPayloadInvalidWav ==
    (/\ IsTranscription(last)
     /\ last.payload.len < MinWavSize
     /\ (last.prog = "server" => HonestContentLength(last)))
        => /\ last.body.success = FALSE
           /\ last.body.error \in InvalidWavMessages
           /\ ~last.invoked

\* C1 amended: every payload of 0..43 bytes gets success=false and
\* model.transcribe is not invoked; the error starts with "Invalid WAV data"
\* in the CLI, and in the server when Content-Length is a non-zero integer;
\* the server answers a zero or missing Content-Length with "No audio data
\* received" and an unparsable one with the text of the ValueError.
C1_ShortPayloadRejected ==
    (IsTranscription(last) /\ last.payload.len < MinWavSize)
        => /\ last.body.success = FALSE
           /\ ~last.invoked
           /\ last.prog = "cli" => last.body.error \in InvalidWavMessages
           /\ last.prog = "server" =>
                  IF last.hdr \in {"missing", "0"}
                  THEN last.body.error = "No audio data received"
                  ELSE IF last.hdr = "abc"
                  THEN last.body.error = "invalid literal for int() with base 10"
                  ELSE last.body.error \in InvalidWavMessages

C1_Witness ==
    /\ last.prog = "server"
    /\ last.method = "POST"
    /\ last.hdr = "43"
    /\ last.payload.len = 43
    /\ last.body.error = "Invalid WAV data (too short)"

\* C2 as stated: the temporary file created for a call does not exist once
\* the call has returned, on every exit path; no file is left over.
C2_NoTempFileLeft ==
    \A c \in Calls : st[c] = "answered" => NamedTemporaryFile(c) \notin tmpfiles

\* C3: every POST is answered with status 200 and a JSON body with a boolean
\* success field, whatever the outcome.
C3_PostAlways200 ==
    (last.prog = "server" /\ last.method = "POST")
        => /\ last.status = HTTP_OK
           /\ "success" \in DOMAIN last.body
           /\ last.body.success \in BOOLEAN
           /\ last.body.success = FALSE => "error" \in DOMAIN last.body

C3_Witness ==
    /\ last.prog = "server"
    /\ last.method = "POST"
    /\ last.fault = "transcribe"
    /\ last.status = HTTP_OK
    /\ last.body.success = FALSE

\* C4 as stated: every request that is neither a POST nor a GET of /health
\* is answered with status 404.
C4_OtherRequests404 ==
    (/\ last.prog = "server"
     /\ last.method # "POST"
     /\ ~(last.method = "GET" /\ last.path = "/health"))
        => last.status = HTTP_NOT_FOUND

\* C4 amended: a GET of any path other than /health is answered with status
\* 404; a request with any method other than GET and POST is answered with
\* status 501 on every path.
C4_OtherRequests404Or501 ==
    (last.prog = "server" /\ last.method # "POST")
        => IF last.method = "GET"
           THEN last.path # "/health" => last.status = HTTP_NOT_FOUND
           ELSE last.status = HTTP_NOT_IMPLEMENTED

C4_Witness ==
    /\ last.prog = "server"
    /\ last.method = "DELETE"
    /\ last.path = "/health"
    /\ last.status = HTTP_NOT_IMPLEMENTED

\* The characters of the segments, in the order the model returned them:
\* TotalLen and CharAt describe the concatenation by position, without
\* building it.
RECURSIVE TotalLen(_)
TotalLen(segs) ==
    IF segs = <<>> THEN 0 ELSE Len(Head(segs)) + TotalLen(Tail(segs))

CharAt(segs, k) ==
    LET i == CHOOSE i \in DOMAIN segs :
                 /\ TotalLen(SubSeq(segs, 1, i - 1)) < k
                 /\ k <= TotalLen(SubSeq(segs, 1, i))
    IN  segs[i][k - TotalLen(SubSeq(segs, 1, i - 1))]

\* A blocked phrase occurs in the concatenation of the segments.
HasBlockedPhrase(segs) ==
    \E h \in DOMAIN hallucinations :
        \E off \in 0..(TotalLen(segs) - Len(hallucinations[h])) :
            \A k \in DOMAIN hallucinations[h] :
                CharAt(segs, off + k) = hallucinations[h][k]

\* text is the concatenation of the segments, in order and without a
\* separator, less its leading and trailing whitespace.
IsStrippedConcat(text, segs) ==
    \E lo \in 0..TotalLen(segs) :
        /\ lo + Len(text) <= TotalLen(segs)
        /\ \A k \in 1..lo : CharAt(segs, k) \in Whitespace
        /\ \A k \in DOMAIN text : text[k] = CharAt(segs, lo + k)
        /\ \A k \in (lo + Len(text) + 1)..TotalLen(segs) :
               CharAt(segs, k) \in Whitespace
        /\ text # <<>> =>
               text[1] \notin Whitespace /\ text[Len(text)] \notin Whitespace

\* C5 as stated: in either program, a transcript that contains a blocked
\* phrase is returned as the empty string with success=true, and any other
\* transcript is returned unchanged apart from stripping.
C5_BlockedPhraseEmptiesText ==
    Transcribed(last)
        => /\ last.body.success = TRUE
           /\ IF HasBlockedPhrase(last.segs)
              THEN last.body.text = <<>>
              ELSE IsStrippedConcat(last.body.text, last.segs)

\* C5 amended: in the HTTP server a transcript that contains a blocked
\* phrase is returned as the empty string with success=true and any other
\* transcript is returned unchanged apart from stripping; the CLI applies no
\* filter and returns every transcript unchanged apart from stripping.
C5_ServerFiltersCliDoesNot ==
    Transcribed(last)
        => /\ last.body.success = TRUE
           /\ IF last.prog = "server" /\ HasBlockedPhrase(last.segs)
              THEN last.body.text = <<>>
              ELSE IsStrippedConcat(last.body.text, last.segs)

C5_Witness ==
    /\ Transcribed(last)
    /\ last.prog = "server"
    /\ last.segs = <<SegA, SegB, SegC>>
    /\ last.body.text = <<>>
    /\ last.body.success = TRUE

IsHealthCheck(e) ==
    e.prog = "server" /\ e.method = "GET" /\ e.path = "/health"

\* The answer to a health check names the device and compute type the model
\* was constructed with, and the CPU fallback when CUDA was requested but is
\* not there.
HealthReportsResolved ==
    IsHealthCheck(last)
        => /\ last.status = HTTP_OK
           /\ last.body.status = "ok"
           /\ model.kind = "WhisperModel"
           /\ last.body.device = model.device
           /\ last.body.compute_type = model.compute_type
           /\ (DEVICE = "cuda" /\ torch # "cuda_available")
                  => last.body.device = "cpu" /\ last.body.compute_type = "int8"
           /\ (DEVICE = "cuda" /\ torch = "cuda_available")
                  => /\ last.body.device = "cuda"
                     /\ last.body.compute_type = COMPUTE_TYPE

\* What a health check reports does not change once the server serves.
HealthReportStable ==
    srv = "listening"
        => /\ do_GET("/health")' = do_GET("/health")
           /\ srv' = "listening"

\* C6: GET /health returns status "ok" with the device and compute type
\* resolved at startup and used to construct the model (cpu and int8 when
\* cuda was requested but is unavailable), the same for every health request
\* of the process.
C6_HealthReportsActual ==
    []HealthReportsResolved /\ [][HealthReportStable]_vars

C6_Witness ==
    /\ IsHealthCheck(last)
    /\ DEVICE = "cuda"
    /\ COMPUTE_TYPE = "float16"
    /\ torch = "no_cuda"
    /\ last.body.device = "cpu"
    /\ last.body.compute_type = "int8"

\* The model is constructed at most once and before anything is served; a
\* server whose load failed has exited with status 1 and serves nothing; a
\* CLI run whose load failed reports success=false.
LoadedOnceBeforeServing ==
    /\ loads <= 1
    /\ (model.kind = "WhisperModel") <=> (loads = 1)
    /\ srv \in {"loaded", "listening"} => model.kind = "WhisperModel"
    /\ (last.prog = "server" \/ \E c \in Calls : st[c] \in {"queued", "handling"})
           => srv = "listening" /\ model.kind = "WhisperModel"
    /\ srv = "exited"
           => /\ exit_status = <<1>>
              /\ model = NoModel
              /\ last.prog # "server"
              /\ \A c \in Calls : st[c] \notin {"queued", "handling"}
    /\ last.prog = "cli"
           => /\ last.loads <= 1
              /\ last.invoked => last.loads = 1
              /\ last.fault = "load"
                     => /\ last.body.success = FALSE
                        /\ ~last.invoked

\* The handle is never reassigned, and an exited server stays exited.
HandleNeverReassigned ==
    /\ model.kind = "WhisperModel" => model' = model /\ loads' = loads
    /\ srv = "exited" => srv' = "exited"

OneAtATime ==
    Cardinality({c \in Calls : st[c] = "handling"}) <= 1

\* No request is started, or answered, while another one is being handled.
NoStartWhileBusy ==
    \A c \in Calls :
        (st[c] = "queued" /\ st'[c] \in {"handling", "answered"})
            => \A d \in Calls : st[d] # "handling"

\* C8: the server handles one request at a time: at most one
\* model.transcribe call is in progress, and a request that arrives during a
\* transcription is not started until the current one has been answered.
C8_OneRequestAtATime ==
    []OneAtATime /\ [][NoStartWhileBusy]_vars

C8_Witness ==
    \E c, d \in Calls : st[c] = "handling" /\ st[d] = "queued"

\* C9 as stated: a payload of 44 bytes or more that is not a well-formed WAV
\* container gets success=false from both programs without model.transcribe
\* being invoked on it.
C9_MalformedRejectedBeforeInference ==
    (/\ IsTranscription(last)
     /\ last.payload.len >= MinWavSize
     /\ ~last.payload.wav)
        => /\ last.body.success = FALSE
           /\ ~last.invoked

\* C10: the transcript is the segment texts concatenated in the order the
\* model returned them, with no separator, less the leading and trailing
\* whitespace of the whole (the server then blanks a transcript that holds
\* a blocked phrase).
C10_SegmentsConcatenatedInOrder ==
    (Transcribed(last) /\ ~(last.prog = "server" /\ HasBlockedPhrase(last.segs)))
        => IsStrippedConcat(last.body.text, last.segs)

C10_Witness ==
    /\ Transcribed(last)
    /\ last.segs = <<SegA, SegD>>
    /\ last.body.text = <<"a", "\n", "b", " ", "b", "y">>

===========================================================================
